---- MODULE Spec2Model ----
(***************************************************************************)
(* Energy-aware autoscaler: the control loop of run_exp_phase3.py          *)
(* (compute_metrics, autoscale, scale_deployment, the main loop) and the   *)
(* metric acquisition of energy_monitoring.py (EnergyMonitor).             *)
(*                                                                         *)
(* Numbers: Python floats are modelled as exact rationals <<n, d>>, d > 0, *)
(* compared by cross multiplication, so rps / power and the threshold      *)
(* comparisons are computed, not assumed.                                  *)
(***************************************************************************)
EXTENDS Integers, Sequences, FiniteSets, TLC

(* ------------------------------ bounds -------------------------------- *)

\* Number of configured services (the code lists ten, s0..s9).
NumServices == 2
\* Largest number of Running pods `kubectl get pods` may list for a service.
MaxPods == 1
\* Policy inputs: efficiency ranges over k/20 for k in 0..MaxEffStep.
MaxEffStep == 9
\* Policy inputs: rps ranges over k/2 for k in 0..MaxRpsStep.
MaxRpsStep == 5
\* Policy inputs: the replica count read ranges over 0..MaxCur.
MaxCur == 6

(* ----------------------------- rationals ------------------------------ *)

RECURSIVE GCD(_, _)
GCD(a, b) == IF b = 0 THEN a ELSE GCD(b, a % b)

\* The rational n/d in lowest terms (d > 0, n >= 0).
Rat(n, d) ==
    LET g == GCD(n, d) IN IF g = 0 THEN <<0, 1>> ELSE <<n \div g, d \div g>>

Zero == <<0, 1>>

RLt(a, b) == a[1] * b[2] < b[1] * a[2]

RGt(a, b) == RLt(b, a)

RIsPos(a) == a[1] > 0

\* a / b for b > 0
RDiv(a, b) == Rat(a[1] * b[2], a[2] * b[1])

RMul(a, b) == Rat(a[1] * b[1], a[2] * b[2])

RAdd(a, b) == Rat(a[1] * b[2] + b[1] * a[2], a[2] * b[2])

\* max(0, a + k/10) for an integer number k of tenths (k may be negative)
RAddTenthsClamped(a, k) ==
    LET n == a[1] * 10 + k * a[2] IN IF n <= 0 THEN Zero ELSE Rat(n, a[2] * 10)

(* --------------------------- configuration ---------------------------- *)

\* SERVICES = ["s0", "s1", ...]: service "s<k>" is the integer k.
SERVICES == [k \in 1..NumServices |-> k - 1]

ServiceIds == {SERVICES[k] : k \in 1..NumServices}

LOW_EFFICIENCY_THRESHOLD == Rat(25, 100)

HIGH_EFFICIENCY_THRESHOLD == Rat(35, 100)

MIN_REPLICAS == 1

MAX_REPLICAS == 5

RPS_SCALE_DOWN_THRESHOLD == Rat(2, 1)

\* The module-level configuration of run_exp_phase3.py.
CodeConfig ==
    [low |-> LOW_EFFICIENCY_THRESHOLD, high |-> HIGH_EFFICIENCY_THRESHOLD,
     rps_down |-> RPS_SCALE_DOWN_THRESHOLD,
     min_replicas |-> MIN_REPLICAS, max_replicas |-> MAX_REPLICAS]

\* random.uniform(-0.5, 1.0), in tenths, on a grid that holds both ends.
NoiseValues == {-5, 0, 5, 10}

\* get_current_replicas returns None when kubectl fails.
None == -1

VARIABLES
    cfg,        \* thresholds and bounds the policy reads
    replicas,   \* orchestrator: service -> .spec.replicas of its deployment
    pc,         \* "idle" | "compute" | "scale" | "crashed"
    pos,        \* index of the next item of the loop that is running
    metrics,    \* the dict compute_metrics builds: service -> snapshot
    decisions,  \* this tick's results of the if / elif / else, in order
    calls,      \* this tick's scale_deployment calls, in order
    log,        \* this tick's outcome lines, in order
    reads,      \* this tick's get_current_replicas results, in order
    others,     \* this tick's writes of other clients to the replica counts
    mon_pc,     \* EnergyMonitor: the block of get_service_metrics that runs
    mon_n,      \* EnergyMonitor: samples of the current result consumed
    mon_metrics,\* EnergyMonitor: the dict get_service_metrics builds
    rows,       \* ResearchDataCollector: the rows of the current iteration
    energy_data,\* EnergyMonitor: the energy-rate samples of get_epr_by_service
    request_data,\* EnergyMonitor: the request-rate samples of get_epr_by_service
    epr_results,\* EnergyMonitor: the dict get_epr_by_service builds
    sample,     \* EnergyMonitor: the sample get_service_metrics consumed last
    failed      \* EnergyMonitor: the queries of this call that returned None

ctlvars == <<cfg, replicas, pc, pos, metrics, decisions, calls, log, reads,
            others>>

eprvars == <<energy_data, request_data, epr_results>>

qryvars == <<sample, failed>>

monvars == <<mon_pc, mon_n, mon_metrics, rows,
            energy_data, request_data, epr_results, sample, failed>>

vars == <<cfg, replicas, pc, pos, metrics, decisions, calls, log, reads,
          others,
          mon_pc, mon_n, mon_metrics, rows,
          energy_data, request_data, epr_results, sample, failed>>

(* ------------------------- derived metrics ---------------------------- *)

\* efficiency = rps / power if power > 0 else 0.0
Efficiency(rps, power) == IF RIsPos(power) THEN RDiv(rps, power) ELSE Zero

\* Epr with the operands of the division exchanged.
Epr_Inverted(rps, power) == IF RIsPos(rps) THEN RDiv(rps, power) ELSE Zero

\* epr = power / rps if rps > 0 else 0.0
Epr(rps, power) == IF RIsPos(rps) THEN RDiv(power, rps) ELSE Zero

(* --------------------------- orchestrator ----------------------------- *)

\* kubectl get deployment ... -o jsonpath={.spec.replicas}: the count, or None
\* when the command (or int()) fails.
get_current_replicas(service, ok) == IF ok THEN replicas[service] ELSE None

(* -------------------------- compute_metrics --------------------------- *)

\* ServiceSnapshot with 0 instead of 1 as the count of a failed read.
ServiceSnapshot_DefaultZero(read, active_pods, noise) ==
    LET current_replicas == IF read = None THEN 0 ELSE read
        active == active_pods > 0 /\ current_replicas > 0
        base_rps == Rat(current_replicas * 15, 10)
        rps == IF active THEN RAddTenthsClamped(base_rps, noise) ELSE Zero
        power == IF active
                 THEN RAdd(Rat(15, 10), RMul(rps, Rat(3, 10)))
                 ELSE Rat(15, 10)
    IN  [replicas |-> current_replicas,
         power_watts |-> power,
         rps |-> rps,
         efficiency_rps_per_watt |-> Efficiency(rps, power),
         epr_joules_per_request |-> Epr(rps, power),
         total_energy_joules |-> RMul(power, Rat(60, 1))]

\* The snapshot the try block of compute_metrics stores for one service:
\* `read` is what get_current_replicas returned, `active_pods` the number of
\* Running pods listed, `noise` the draw of random.uniform in tenths.
ServiceSnapshot(read, active_pods, noise) ==
    LET current_replicas == IF read = None THEN 1 ELSE read
        active == active_pods > 0 /\ current_replicas > 0
        base_rps == Rat(current_replicas * 15, 10)
        rps == IF active THEN RAddTenthsClamped(base_rps, noise) ELSE Zero
        power == IF active
                 THEN RAdd(Rat(15, 10), RMul(rps, Rat(3, 10)))
                 ELSE Rat(15, 10)
    IN  [replicas |-> current_replicas,
         power_watts |-> power,
         rps |-> rps,
         efficiency_rps_per_watt |-> Efficiency(rps, power),
         epr_joules_per_request |-> Epr(rps, power),
         total_energy_joules |-> RMul(power, Rat(60, 1))]

\* The snapshot of the except branch of compute_metrics.
FallbackMetrics ==
    [replicas |-> 1,
     power_watts |-> Rat(15, 10),
     rps |-> Zero,
     efficiency_rps_per_watt |-> Zero,
     epr_joules_per_request |-> Zero,
     total_energy_joules |-> Rat(90, 1)]

EmptyMetrics == [s \in {} |-> FallbackMetrics]

\* Items in the reverse of the insertion order.
Items_Reversed ==
    LET items == SelectSeq(SERVICES, LAMBDA s : s \in DOMAIN metrics)
    IN  [k \in 1..Len(items) |-> items[Len(items) + 1 - k]]

\* metrics.items(): the keys in insertion order, which is the order of SERVICES.
Items == SelectSeq(SERVICES, LAMBDA s : s \in DOMAIN metrics)

(* ------------------------------ policy -------------------------------- *)

\* Variants of the policy, each with one plausible slip.

\* ... the ceiling guard of rule 1 forgotten
ScalingPolicy_NoCeiling(eff, rps, current_replicas, c) ==
    IF RLt(eff, c.low)
    THEN [kind |-> "ScaleUp", target |-> current_replicas + 1]
    ELSE IF /\ RGt(eff, c.high)
            /\ RLt(rps, c.rps_down)
            /\ current_replicas > c.min_replicas
         THEN [kind |-> "ScaleDown", target |-> current_replicas - 1]
         ELSE [kind |-> "NoChange", target |-> current_replicas]

\* ... rule 1 comparing with <= instead of <
ScalingPolicy_UpInclusive(eff, rps, current_replicas, c) ==
    IF ~RGt(eff, c.low) /\ current_replicas < c.max_replicas
    THEN [kind |-> "ScaleUp", target |-> current_replicas + 1]
    ELSE IF /\ RGt(eff, c.high)
            /\ RLt(rps, c.rps_down)
            /\ current_replicas > c.min_replicas
         THEN [kind |-> "ScaleDown", target |-> current_replicas - 1]
         ELSE [kind |-> "NoChange", target |-> current_replicas]

\* ... rule 2 comparing rps with <= instead of <
ScalingPolicy_DownRpsInclusive(eff, rps, current_replicas, c) ==
    IF RLt(eff, c.low) /\ current_replicas < c.max_replicas
    THEN [kind |-> "ScaleUp", target |-> current_replicas + 1]
    ELSE IF /\ RGt(eff, c.high)
            /\ ~RGt(rps, c.rps_down)
            /\ current_replicas > c.min_replicas
         THEN [kind |-> "ScaleDown", target |-> current_replicas - 1]
         ELSE [kind |-> "NoChange", target |-> current_replicas]

\* ... the floor guard of rule 2 forgotten
ScalingPolicy_NoFloor(eff, rps, current_replicas, c) ==
    IF RLt(eff, c.low) /\ current_replicas < c.max_replicas
    THEN [kind |-> "ScaleUp", target |-> current_replicas + 1]
    ELSE IF RGt(eff, c.high) /\ RLt(rps, c.rps_down)
         THEN [kind |-> "ScaleDown", target |-> current_replicas - 1]
         ELSE [kind |-> "NoChange", target |-> current_replicas]

\* ... rule 2 comparing the efficiency with < instead of >
ScalingPolicy_DownBelowHigh(eff, rps, current_replicas, c) ==
    IF RLt(eff, c.low) /\ current_replicas < c.max_replicas
    THEN [kind |-> "ScaleUp", target |-> current_replicas + 1]
    ELSE IF /\ RLt(eff, c.high)
            /\ RLt(rps, c.rps_down)
            /\ current_replicas > c.min_replicas
         THEN [kind |-> "ScaleDown", target |-> current_replicas - 1]
         ELSE [kind |-> "NoChange", target |-> current_replicas]

\* ... the floor guard of rule 2 comparing with 0 instead of the minimum
ScalingPolicy_FloorZero(eff, rps, current_replicas, c) ==
    IF RLt(eff, c.low) /\ current_replicas < c.max_replicas
    THEN [kind |-> "ScaleUp", target |-> current_replicas + 1]
    ELSE IF /\ RGt(eff, c.high)
            /\ RLt(rps, c.rps_down)
            /\ current_replicas > 0
         THEN [kind |-> "ScaleDown", target |-> current_replicas - 1]
         ELSE [kind |-> "NoChange", target |-> current_replicas]

\* ... the two rules in the other order
ScalingPolicy_DownFirst(eff, rps, current_replicas, c) ==
    IF /\ RGt(eff, c.high)
       /\ RLt(rps, c.rps_down)
       /\ current_replicas > c.min_replicas
    THEN [kind |-> "ScaleDown", target |-> current_replicas - 1]
    ELSE IF RLt(eff, c.low) /\ current_replicas < c.max_replicas
         THEN [kind |-> "ScaleUp", target |-> current_replicas + 1]
         ELSE [kind |-> "NoChange", target |-> current_replicas]

\* ... the ceiling guard of rule 1 comparing with <= instead of <
ScalingPolicy_CeilingInclusive(eff, rps, current_replicas, c) ==
    IF RLt(eff, c.low) /\ current_replicas <= c.max_replicas
    THEN [kind |-> "ScaleUp", target |-> current_replicas + 1]
    ELSE IF /\ RGt(eff, c.high)
            /\ RLt(rps, c.rps_down)
            /\ current_replicas > c.min_replicas
         THEN [kind |-> "ScaleDown", target |-> current_replicas - 1]
         ELSE [kind |-> "NoChange", target |-> current_replicas]

\* ... the floor guard of rule 2 comparing with >= instead of >
ScalingPolicy_FloorInclusive(eff, rps, current_replicas, c) ==
    IF RLt(eff, c.low) /\ current_replicas < c.max_replicas
    THEN [kind |-> "ScaleUp", target |-> current_replicas + 1]
    ELSE IF /\ RGt(eff, c.high)
            /\ RLt(rps, c.rps_down)
            /\ current_replicas >= c.min_replicas
         THEN [kind |-> "ScaleDown", target |-> current_replicas - 1]
         ELSE [kind |-> "NoChange", target |-> current_replicas]

\* ... the efficiency test of rule 2 forgotten
ScalingPolicy_DownNoEfficiency(eff, rps, current_replicas, c) ==
    IF RLt(eff, c.low) /\ current_replicas < c.max_replicas
    THEN [kind |-> "ScaleUp", target |-> current_replicas + 1]
    ELSE IF RLt(rps, c.rps_down) /\ current_replicas > c.min_replicas
         THEN [kind |-> "ScaleDown", target |-> current_replicas - 1]
         ELSE [kind |-> "NoChange", target |-> current_replicas]

\* The if / elif / else of autoscale for one service.
ScalingPolicy(eff, rps, current_replicas, c) ==
    IF RLt(eff, c.low) /\ current_replicas < c.max_replicas
    THEN [kind |-> "ScaleUp", target |-> current_replicas + 1]
    ELSE IF /\ RGt(eff, c.high)
            /\ RLt(rps, c.rps_down)
            /\ current_replicas > c.min_replicas
         THEN [kind |-> "ScaleDown", target |-> current_replicas - 1]
         ELSE [kind |-> "NoChange", target |-> current_replicas]

(* ----------------- EnergyMonitor.get_service_metrics ------------------ *)

\* Largest number of samples one query result holds.
MaxSamples == 2
\* Sample values of the replica, power and request-rate results: 0..MaxValue.
MaxValue == 2

\* The services Prometheus reports (deployment / kubernetes_service labels
\* that match s[0-9]+).
MonServices == {"s0", "s1"}

\* The first dash-separated part of a pod name, pod_name.split('-')[0]: a
\* service, another workload ("kepler-..."), or "" when the label is absent.
PodPrefixes == MonServices \cup {"kepler", ""}

\* kubernetes_service labels of the unfiltered latency queries, "" when absent.
LatencyLabels == MonServices \cup {"kepler", ""}

\* The value of the one latency sample a service may carry.
LatencyValues == {Rat(100, 1)}

EmptySnapshot == [k \in {} |-> Zero]

EmptyMonMetrics == [s \in {} |-> EmptySnapshot]

\* m.get(key, default)
Get(m, key, default) == IF key \in DOMAIN m THEN m[key] ELSE default

\* metrics[service][key] = value
SetField(ms, service, key, value) ==
    [ms EXCEPT ![service] = (key :> value) @@ ms[service]]

\* No sample has been consumed from the result being processed.
NoSample == [block |-> "", label |-> "", value |-> 0, mode |-> ""]

\* The operating-mode label of a Kepler power sample.
PowerModes == {"dynamic", "idle"}

MonInit ==
    /\ mon_pc = "idle"
    /\ mon_n = 0
    /\ mon_metrics = EmptyMonMetrics
    /\ rows = EmptyMonMetrics
    /\ energy_data = <<>>
    /\ request_data = <<>>
    /\ epr_results = EmptyMonMetrics
    /\ sample = NoSample
    /\ failed = {}

(* ----------------------- control-loop actions ------------------------- *)

\* The main loop wakes up, calls autoscale, which calls compute_metrics:
\* metrics = {} and the loop over SERVICES begins.
StartTick ==
    /\ pc = "idle"
    /\ pc' = "compute"
    /\ pos' = 1
    /\ metrics' = EmptyMetrics
    /\ decisions' = <<>>
    /\ calls' = <<>>
    /\ log' = <<>>
    /\ reads' = <<>>
    /\ others' = <<>>
    /\ UNCHANGED <<cfg, replicas>>
    /\ UNCHANGED monvars

\* One iteration of the loop of compute_metrics.
ComputeService ==
    /\ pc = "compute"
    /\ pos <= Len(SERVICES)
    /\ LET service == SERVICES[pos] IN
       \E ok \in BOOLEAN, active_pods \in 0..MaxPods,
          noise \in NoiseValues, raises \in BOOLEAN :
            LET read == get_current_replicas(service, ok) IN
            /\ metrics' = (service :>
                             IF raises
                             THEN FallbackMetrics
                             ELSE ServiceSnapshot(read, active_pods, noise))
                          @@ metrics
            /\ reads' = Append(reads, [service |-> service,
                                       result |-> read,
                                       raised |-> raises])
    /\ pos' = pos + 1
    /\ UNCHANGED <<cfg, replicas, pc, decisions, calls, log, others>>
    /\ UNCHANGED monvars

\* compute_metrics returns; the loop of autoscale over metrics.items() begins.
ComputeReturn ==
    /\ pc = "compute"
    /\ pos > Len(SERVICES)
    /\ pc' = "scale"
    /\ pos' = 1
    /\ UNCHANGED <<cfg, replicas, metrics, decisions, calls, log, reads, others>>
    /\ UNCHANGED monvars

\* scale_deployment that neither issues nor records the call.
scale_deployment_NotApplied(service, target, outcome) ==
    /\ replicas' = replicas
    /\ calls' = calls

\* scale_deployment that scales every deployment of the namespace.
scale_deployment_AllServices(service, target, outcome) ==
    /\ replicas' = IF outcome = "ok"
                   THEN [s \in ServiceIds |-> target]
                   ELSE replicas
    /\ calls' = Append(calls, [service |-> service, target |-> target,
                               result |-> outcome])

\* scale_deployment as a compare-and-set: the write takes effect only when
\* the orchestrator's count is still one away from the target.
scale_deployment_Guarded(service, target, outcome) ==
    /\ replicas' = IF /\ outcome = "ok"
                      /\ replicas[service] \in {target - 1, target + 1}
                   THEN [replicas EXCEPT ![service] = target]
                   ELSE replicas
    /\ calls' = Append(calls, [service |-> service, target |-> target,
                               result |-> outcome])

\* scale_deployment(service, target) with the outcome of kubectl scale:
\* "ok", "failed" (CalledProcessError, caught) or "raised" (any other
\* exception of subprocess.run, which nothing catches).
scale_deployment(service, target, outcome) ==
    /\ replicas' = IF outcome = "ok"
                   THEN [replicas EXCEPT ![service] = target]
                   ELSE replicas
    /\ calls' = Append(calls, [service |-> service, target |-> target,
                               result |-> outcome])

\* One iteration of the loop of autoscale.
AutoscaleService ==
    /\ pc = "scale"
    /\ pos <= Len(Items)
    /\ LET service == Items[pos]
           m == metrics[service]
           d == ScalingPolicy(m.efficiency_rps_per_watt, m.rps, m.replicas, cfg)
       IN  /\ decisions' = Append(decisions, [service |-> service,
                                                  kind |-> d.kind,
                                                  target |-> d.target])
           /\ IF d.kind = "NoChange"
              THEN /\ log' = Append(log, [service |-> service,
                                          kind |-> d.kind,
                                          replicas |-> m.replicas])
                   /\ pos' = pos + 1
                   /\ UNCHANGED <<replicas, calls, pc>>
              ELSE \E outcome \in {"ok", "failed", "raised"} :
                     /\ scale_deployment(service, d.target, outcome)
                     /\ IF outcome = "raised"
                        THEN pc' = "crashed" /\ UNCHANGED <<log, pos>>
                        ELSE /\ log' = Append(log, [service |-> service,
                                                    kind |-> d.kind,
                                                    replicas |-> d.target])
                             /\ pos' = pos + 1
                             /\ UNCHANGED pc
    /\ UNCHANGED <<cfg, metrics, reads, others>>
    /\ UNCHANGED monvars

\* AutoscaleReturn with the dict of the tick kept while the loop sleeps.
AutoscaleReturn_KeepsMetrics ==
    /\ pc = "scale"
    /\ pos > Len(Items)
    /\ pc' = "idle"
    /\ pos' = 1
    /\ UNCHANGED <<cfg, replicas, metrics, decisions, calls, log, reads, others>>
    /\ UNCHANGED monvars

\* autoscale returns (its metrics are discarded) and the main loop sleeps.
AutoscaleReturn ==
    /\ pc = "scale"
    /\ pos > Len(Items)
    /\ pc' = "idle"
    /\ pos' = 1
    /\ metrics' = EmptyMetrics
    /\ UNCHANGED <<cfg, replicas, decisions, calls, log, reads, others>>
    /\ UNCHANGED monvars

Init ==
    /\ cfg = CodeConfig
    /\ replicas \in [ServiceIds -> MIN_REPLICAS..MAX_REPLICAS]
    /\ pc = "idle"
    /\ pos = 1
    /\ metrics = EmptyMetrics
    /\ decisions = <<>>
    /\ calls = <<>>
    /\ log = <<>>
    /\ reads = <<>>
    /\ others = <<>>
    /\ MonInit

Next ==
    \/ StartTick
    \/ ComputeService
    \/ ComputeReturn
    \/ AutoscaleService
    \/ AutoscaleReturn

Spec == Init /\ [][Next]_vars

\* The loop is one thread that never waits for anything but its own sleep
\* and its subprocesses: as long as every call returns, the step that is
\* possible is eventually taken.
FairSpec == Spec /\ WF_vars(Next)

(* ------------------- the loop under any configuration ---------------- *)

\* Values the module-level constants may be set to: the code's own, bounds
\* with MIN_REPLICAS > MAX_REPLICAS, and a negative threshold of each kind.
StartConfigs ==
    {CodeConfig,
     [CodeConfig EXCEPT !.min_replicas = MAX_REPLICAS + 1],
     [CodeConfig EXCEPT !.low = Rat(-1, 10)],
     [CodeConfig EXCEPT !.high = Rat(-1, 10)],
     [CodeConfig EXCEPT !.rps_down = Rat(-1, 1)]}

\* The process starts: the constants are bound and the main loop is entered;
\* nothing inspects the constants first.
ConfigInit ==
    /\ cfg \in StartConfigs
    /\ replicas \in [ServiceIds -> MIN_REPLICAS..MAX_REPLICAS]
    /\ pc = "idle"
    /\ pos = 1
    /\ metrics = EmptyMetrics
    /\ decisions = <<>>
    /\ calls = <<>>
    /\ log = <<>>
    /\ reads = <<>>
    /\ others = <<>>
    /\ MonInit

ConfigSpec == ConfigInit /\ [][Next]_vars

(* ------------------ other writers of the replica count ---------------- *)

\* Writes of other clients to the replica counts in one tick.
MaxOtherWrites == 1

\* The services whose count this tick has read and not yet decided on.
Pending ==
    IF pc = "compute"
    THEN DOMAIN metrics
    ELSE IF pc = "scale"
         THEN {Items[k] : k \in pos..Len(Items)}
         ELSE {}

\* Another client (an operator's kubectl, an HPA) sets .spec.replicas of a
\* deployment between the read and the decision of this tick. Neither
\* get_current_replicas nor scale_deployment takes a lock or passes a
\* resource version, so the orchestrator accepts the write.
OtherWrite ==
    /\ Len(others) < MaxOtherWrites
    /\ \E service \in Pending, value \in MIN_REPLICAS..MAX_REPLICAS :
         /\ value # replicas[service]
         /\ replicas' = [replicas EXCEPT ![service] = value]
         /\ others' = Append(others, [service |-> service, value |-> value])
    /\ UNCHANGED <<cfg, pc, pos, metrics, decisions, calls, log, reads>>
    /\ UNCHANGED monvars


(* ------------------ the policy over arbitrary inputs ------------------ *)

\* Efficiency and rps values handed to the policy: a grid that holds the
\* thresholds and values below, between and above them.
EffValues == {Rat(k, 20) : k \in 0..MaxEffStep}

RpsValues == {Rat(k, 2) : k \in 0..MaxRpsStep}

\* Threshold configurations: low < high, low = high and low > high.
Configs ==
    [low : {LOW_EFFICIENCY_THRESHOLD, HIGH_EFFICIENCY_THRESHOLD},
     high : {LOW_EFFICIENCY_THRESHOLD, HIGH_EFFICIENCY_THRESHOLD},
     rps_down : {Rat(1, 1), RPS_SCALE_DOWN_THRESHOLD},
     min_replicas : {MIN_REPLICAS, MIN_REPLICAS + 1},
     max_replicas : {MAX_REPLICAS - 1, MAX_REPLICAS}]

\* The service the policy specification drives.
PolicyService == SERVICES[1]

\* A snapshot with the given policy inputs (the other fields are not read
\* by autoscale).
PolicySnapshot(current_replicas, eff, rps) ==
    [replicas |-> current_replicas,
     power_watts |-> Zero,
     rps |-> rps,
     efficiency_rps_per_watt |-> eff,
     epr_joules_per_request |-> Zero,
     total_energy_joules |-> Zero]

\* A tick whose metrics are arbitrary: autoscale is entered with a snapshot
\* of one service holding any efficiency and rps of the grid and the replica
\* count read from the orchestrator (or the default 1 when the read failed).
PolicyTick ==
    /\ pc = "idle"
    /\ \E eff \in EffValues, rps \in RpsValues, ok \in BOOLEAN :
         LET read == get_current_replicas(PolicyService, ok) IN
         /\ metrics' = (PolicyService :>
                          PolicySnapshot(IF read = None THEN 1 ELSE read,
                                         eff, rps))
         /\ reads' = <<[service |-> PolicyService, result |-> read,
                        raised |-> FALSE]>>
         /\ others' = <<>>
    /\ pc' = "scale"
    /\ pos' = 1
    /\ decisions' = <<>>
    /\ calls' = <<>>
    /\ log' = <<>>
    /\ UNCHANGED <<cfg, replicas>>
    /\ UNCHANGED monvars

PolicyInit ==
    /\ cfg \in Configs
    /\ replicas \in [ServiceIds -> 0..MaxCur]
    /\ \A s \in ServiceIds \ {PolicyService} : replicas[s] = MIN_REPLICAS
    /\ pc = "idle"
    /\ pos = 1
    /\ metrics = EmptyMetrics
    /\ decisions = <<>>
    /\ calls = <<>>
    /\ log = <<>>
    /\ reads = <<>>
    /\ others = <<>>
    /\ MonInit

PolicyNext ==
    \/ PolicyTick
    \/ AutoscaleService
    \/ AutoscaleReturn

PolicySpec == PolicyInit /\ [][PolicyNext]_vars

\* The race of autoscale with another writer: one service under the code's
\* configuration, read and decided on as in PolicySpec, with the other
\* client's write falling between the read and the decision.
RaceInit ==
    /\ PolicyInit
    /\ cfg = CodeConfig
    /\ replicas[PolicyService] \in MIN_REPLICAS..MAX_REPLICAS

RaceNext ==
    \/ PolicyNext
    \/ OtherWrite

RaceSpec == RaceInit /\ [][RaceNext]_vars

(* -------------------- EnergyMonitor: the actions ---------------------- *)

\* get_service_metrics is called: metrics = {} and the five queries are
\* issued (each result is consumed sample by sample in the block that
\* processes it).
MonStart ==
    /\ mon_pc \in {"idle", "collected"}
    /\ mon_pc' = "replicas"
    /\ mon_n' = 0
    /\ mon_metrics' = EmptyMonMetrics
    /\ rows' = EmptyMonMetrics
    /\ sample' = NoSample
    /\ failed' = {}
    /\ UNCHANGED eprvars
    /\ UNCHANGED ctlvars

\* One sample of replica_data: metrics[deployment]['replicas'] = int(value),
\* the entry of the service being created when it is not there.
ProcessReplicaSample ==
    /\ mon_pc = "replicas"
    /\ mon_n < MaxSamples
    /\ \E service \in MonServices, value \in 0..MaxValue :
         LET ms == IF service \in DOMAIN mon_metrics
                   THEN mon_metrics
                   ELSE (service :> EmptySnapshot) @@ mon_metrics
         IN  /\ mon_metrics' = SetField(ms, service, "replicas", value)
             /\ sample' = [block |-> mon_pc, label |-> service,
                           value |-> value, mode |-> ""]
    /\ mon_n' = mon_n + 1
    /\ UNCHANGED <<mon_pc, rows, failed>>
    /\ UNCHANGED eprvars
    /\ UNCHANGED ctlvars

\* What one sample of a later block does: the field is set only for a
\* non-empty service name that the replica block has entered.
StoreIfKnown(service, key, value) ==
    mon_metrics' = IF service # "" /\ service \in DOMAIN mon_metrics
                   THEN SetField(mon_metrics, service, key, value)
                   ELSE mon_metrics

\* One sample of p95_data.
ProcessP95Sample ==
    /\ mon_pc = "p95"
    /\ mon_n < MaxSamples
    /\ \E service \in LatencyLabels, value \in LatencyValues :
         /\ StoreIfKnown(service, "latency_p95_ms", value)
         /\ sample' = [block |-> mon_pc, label |-> service,
                       value |-> value[1], mode |-> ""]
    /\ mon_n' = mon_n + 1
    /\ UNCHANGED <<mon_pc, rows, failed>>
    /\ UNCHANGED eprvars
    /\ UNCHANGED ctlvars

\* One sample of p99_data.
ProcessP99Sample ==
    /\ mon_pc = "p99"
    /\ mon_n < MaxSamples
    /\ \E service \in LatencyLabels, value \in LatencyValues :
         /\ StoreIfKnown(service, "latency_p99_ms", value)
         /\ sample' = [block |-> mon_pc, label |-> service,
                       value |-> value[1], mode |-> ""]
    /\ mon_n' = mon_n + 1
    /\ UNCHANGED <<mon_pc, rows, failed>>
    /\ UNCHANGED eprvars
    /\ UNCHANGED ctlvars

\* One sample of power_data: the service is the prefix of the pod name.
ProcessPowerSample ==
    /\ mon_pc = "power"
    /\ mon_n < MaxSamples
    /\ \E prefix \in PodPrefixes, value \in 0..MaxValue, mode \in PowerModes :
         /\ StoreIfKnown(prefix, "power_watts", Rat(value, 1))
         /\ sample' = [block |-> mon_pc, label |-> prefix,
                       value |-> value, mode |-> mode]
    /\ mon_n' = mon_n + 1
    /\ UNCHANGED <<mon_pc, rows, failed>>
    /\ UNCHANGED eprvars
    /\ UNCHANGED ctlvars

\* One sample of rps_data.
ProcessRpsSample ==
    /\ mon_pc = "rps"
    /\ mon_n < MaxSamples
    /\ \E service \in MonServices, value \in 0..MaxValue :
         /\ StoreIfKnown(service, "rps", Rat(value, 1))
         /\ sample' = [block |-> mon_pc, label |-> service,
                       value |-> value, mode |-> ""]
    /\ mon_n' = mon_n + 1
    /\ UNCHANGED <<mon_pc, rows, failed>>
    /\ UNCHANGED eprvars
    /\ UNCHANGED ctlvars

\* The block that follows each block of get_service_metrics.
NextBlock(b) ==
    CASE b = "replicas" -> "p95"
      [] b = "p95" -> "p99"
      [] b = "p99" -> "power"
      [] b = "power" -> "rps"
      [] b = "rps" -> "return"

\* A block ends: its result (which may be empty) is exhausted.
EndBlock ==
    /\ mon_pc \in {"replicas", "p95", "p99", "power", "rps"}
    /\ mon_pc' = NextBlock(mon_pc)
    /\ mon_n' = 0
    /\ sample' = NoSample
    /\ UNCHANGED <<mon_metrics, rows, failed>>
    /\ UNCHANGED eprvars
    /\ UNCHANGED ctlvars

\* The query of a block returned None (query_prometheus caught an
\* exception): `if ..._data:` is false and the block is skipped.
QueryFails ==
    /\ mon_pc \in {"replicas", "p95", "p99", "power", "rps"}
    /\ mon_n = 0
    /\ mon_pc' = NextBlock(mon_pc)
    /\ failed' = failed \cup {mon_pc}
    /\ UNCHANGED <<mon_n, mon_metrics, rows, sample>>
    /\ UNCHANGED eprvars
    /\ UNCHANGED ctlvars

\* The row ResearchDataCollector appends for one service of the dict.
CollectorRow(m) ==
    [replicas |-> Get(m, "replicas", 0),
     rps |-> Get(m, "rps", Zero),
     power_watts |-> Get(m, "power_watts", Zero),
     epr_joules_per_request |-> Get(m, "epr_joules_per_request", Zero),
     latency_p95_ms |-> Get(m, "latency_p95_ms", Zero),
     latency_p99_ms |-> Get(m, "latency_p99_ms", Zero),
     efficiency_rps_per_watt |-> Get(m, "efficiency_rps_per_watt", Zero),
     total_energy_joules |-> Get(m, "total_energy_joules", Zero)]

\* get_service_metrics returns its dict and the collector turns every
\* entry into a row.
Collect ==
    /\ mon_pc = "return"
    /\ rows' = [s \in DOMAIN mon_metrics |-> CollectorRow(mon_metrics[s])]
    /\ mon_pc' = "collected"
    /\ UNCHANGED <<mon_n, mon_metrics, sample, failed>>
    /\ UNCHANGED eprvars
    /\ UNCHANGED ctlvars

MonitorInit ==
    /\ cfg = CodeConfig
    /\ replicas = [s \in ServiceIds |-> MIN_REPLICAS]
    /\ pc = "idle"
    /\ pos = 1
    /\ metrics = EmptyMetrics
    /\ decisions = <<>>
    /\ calls = <<>>
    /\ log = <<>>
    /\ reads = <<>>
    /\ others = <<>>
    /\ MonInit

MonitorNext ==
    \/ MonStart
    \/ ProcessReplicaSample
    \/ ProcessP95Sample
    \/ ProcessP99Sample
    \/ ProcessPowerSample
    \/ ProcessRpsSample
    \/ EndBlock
    \/ QueryFails
    \/ Collect

MonitorSpec == MonitorInit /\ [][MonitorNext]_vars

(* --------------- EnergyMonitor: get_epr_by_service -------------------- *)

\* The results a query of get_epr_by_service may return: up to MaxSamples
\* samples, each a label and a value.
SampleSeqs(labels) ==
    UNION {[1..n -> [label : labels, value : 0..MaxValue]] : n \in 0..MaxSamples}

\* service_name = pod_name.split('-')[0] if pod_name else 'unknown'
ServiceName(pod) == IF pod = "" THEN "unknown" ELSE pod

\* The indices of the request samples whose kubernetes_service label is the
\* service: the inner loop stops at the first of them.
Matching(service_name) ==
    {j \in DOMAIN request_data : request_data[j].label = service_name}

FirstMatching(service_name) ==
    CHOOSE j \in Matching(service_name) :
        \A k \in Matching(service_name) : j <= k

\* The entry get_epr_by_service stores for a service.
EprEntry(energy_rate, request_rate, pod) ==
    [epr_joules_per_request |-> RDiv(energy_rate, request_rate),
     power_watts |-> energy_rate,
     request_rate_rps |-> request_rate,
     pod_name |-> pod]

\* print_summary calls get_epr_by_service: both queries are issued; when
\* either returns None the method returns {} at once.
EprStart ==
    /\ mon_pc = "idle"
    /\ mon_n' = 0
    /\ epr_results' = EmptyMonMetrics
    /\ \E energy_ok \in BOOLEAN, request_ok \in BOOLEAN :
         IF energy_ok /\ request_ok
         THEN /\ energy_data' \in SampleSeqs(PodPrefixes)
              /\ request_data' \in SampleSeqs(LatencyLabels)
              /\ mon_pc' = "epr"
         ELSE /\ energy_data' = <<>>
              /\ request_data' = <<>>
              /\ mon_pc' = "epr_done"
    /\ UNCHANGED <<mon_metrics, rows, sample, failed>>
    /\ UNCHANGED ctlvars

\* One energy sample: the first request sample of the same service is
\* looked up, and an entry is stored when its rate is positive.
ProcessEnergySample ==
    /\ mon_pc = "epr"
    /\ mon_n < Len(energy_data)
    /\ LET energy_metric == energy_data[mon_n + 1]
           service_name == ServiceName(energy_metric.label)
           energy_rate == Rat(energy_metric.value, 1)
       IN  IF Matching(service_name) = {}
           THEN UNCHANGED epr_results
           ELSE LET request_rate ==
                        Rat(request_data[FirstMatching(service_name)].value, 1)
                IN  IF RIsPos(request_rate)
                    THEN epr_results' =
                             (service_name :>
                                  EprEntry(energy_rate, request_rate,
                                           energy_metric.label))
                             @@ epr_results
                    ELSE UNCHANGED epr_results
    /\ mon_n' = mon_n + 1
    /\ UNCHANGED <<mon_pc, mon_metrics, rows, energy_data, request_data>>
    /\ UNCHANGED qryvars
    /\ UNCHANGED ctlvars

\* The loop over the energy samples ends and epr_results is returned.
EprReturn ==
    /\ mon_pc = "epr"
    /\ mon_n >= Len(energy_data)
    /\ mon_pc' = "epr_done"
    /\ UNCHANGED <<mon_n, mon_metrics, rows, sample, failed>>
    /\ UNCHANGED eprvars
    /\ UNCHANGED ctlvars

\* print_summary prints the table of the returned dict and drops it.
PrintEpr ==
    /\ mon_pc = "epr_done"
    /\ mon_pc' = "idle"
    /\ mon_n' = 0
    /\ energy_data' = <<>>
    /\ request_data' = <<>>
    /\ epr_results' = EmptyMonMetrics
    /\ UNCHANGED <<mon_metrics, rows, sample, failed>>
    /\ UNCHANGED ctlvars

EprNext ==
    \/ EprStart
    \/ ProcessEnergySample
    \/ EprReturn
    \/ PrintEpr

EprSpec == MonitorInit /\ [][EprNext]_vars

(* ============================== claims ================================ *)

\* The snapshot a decision of this tick was taken from.
SnapshotOf(d) == metrics[d.service]

\* The decisions of this tick whose snapshot is still held.
Decided == {i \in DOMAIN decisions : decisions[i].service \in DOMAIN metrics}

\* The condition of rule 1 and of rule 2, as the specification words them.
UpCondition(m) ==
    /\ RLt(m.efficiency_rps_per_watt, cfg.low)
    /\ m.replicas < cfg.max_replicas

DownCondition(m) ==
    /\ RGt(m.efficiency_rps_per_watt, cfg.high)
    /\ RLt(m.rps, cfg.rps_down)
    /\ m.replicas > cfg.min_replicas

\* scale_deployment was called for the service of decision d with target t.
Called(d, t) ==
    \E j \in DOMAIN calls : calls[j].service = d.service /\ calls[j].target = t

\* C1: for every service, in every reachable state (so after every decision
\* of every tick has been applied), the replica count of the orchestrator
\* lies in [min_replicas, max_replicas].
C1_ReplicasWithinBounds ==
    \A s \in ServiceIds :
        cfg.min_replicas <= replicas[s] /\ replicas[s] <= cfg.max_replicas

\* A ScaleUp that took a service to the ceiling has been applied in the
\* tick that is running.
C1_Witness ==
    /\ pc = "scale"
    /\ \E j \in DOMAIN calls :
         /\ calls[j].result = "ok"
         /\ calls[j].target = MAX_REPLICAS
         /\ replicas[calls[j].service] = MAX_REPLICAS

\* C2: a decision is ScaleUp with target current_replicas + 1 (and
\* scale_deployment is called with that target) exactly when
\* efficiency < low_threshold and current_replicas < max_replicas.
C2_ScaleUpExactlyWhen ==
    \A i \in Decided :
        LET d == decisions[i]
            m == SnapshotOf(d)
        IN  /\ (d.kind = "ScaleUp" /\ d.target = m.replicas + 1)
                 <=> UpCondition(m)
            /\ d.kind = "ScaleUp" => Called(d, m.replicas + 1)

\* efficiency 0.10, replicas 2, max 5: ScaleUp to 3, applied.
C2_Witness ==
    /\ cfg = CodeConfig
    /\ \E i \in Decided :
         /\ SnapshotOf(decisions[i]).efficiency_rps_per_watt = Rat(10, 100)
         /\ SnapshotOf(decisions[i]).replicas = 2
         /\ decisions[i].kind = "ScaleUp"
         /\ decisions[i].target = 3
         /\ replicas[decisions[i].service] = 3

\* C3: when rule 1 does not match, a decision is ScaleDown with target
\* current_replicas - 1 (and scale_deployment is called with that target)
\* exactly when efficiency > high_threshold and rps < rps_down_threshold and
\* current_replicas > min_replicas.
C3_ScaleDownExactlyWhen ==
    \A i \in Decided :
        LET d == decisions[i]
            m == SnapshotOf(d)
        IN  /\ ~UpCondition(m) =>
                 ((d.kind = "ScaleDown" /\ d.target = m.replicas - 1)
                    <=> DownCondition(m))
            /\ d.kind = "ScaleDown" =>
                 ~UpCondition(m) /\ Called(d, m.replicas - 1)

\* efficiency 0.40, rps 1.0, replicas 3, min 1: ScaleDown to 2, applied.
C3_Witness ==
    /\ cfg = CodeConfig
    /\ \E i \in Decided :
         /\ SnapshotOf(decisions[i]).efficiency_rps_per_watt = Rat(40, 100)
         /\ SnapshotOf(decisions[i]).rps = Rat(1, 1)
         /\ SnapshotOf(decisions[i]).replicas = 3
         /\ decisions[i].kind = "ScaleDown"
         /\ decisions[i].target = 2
         /\ replicas[decisions[i].service] = 2

\* The iteration of autoscale that is about to run handles a service for
\* which neither rule matches.
NeitherRuleNext ==
    /\ pc = "scale"
    /\ pos <= Len(Items)
    /\ ~UpCondition(metrics[Items[pos]])
    /\ ~DownCondition(metrics[Items[pos]])

\* C4: when neither rule matches for a service, the decision is NoChange,
\* the iteration issues no scale_deployment call and leaves every replica
\* count of the orchestrator as it was; no call for that service is among
\* the calls of the tick.
C4_NoChangeNoCall ==
    /\ [][NeitherRuleNext =>
            /\ replicas' = replicas
            /\ calls' = calls
            /\ decisions' = Append(decisions,
                   [service |-> Items[pos], kind |-> "NoChange",
                    target |-> metrics[Items[pos]].replicas])]_vars
    /\ [](\A i \in Decided :
            (~UpCondition(SnapshotOf(decisions[i]))
               /\ ~DownCondition(SnapshotOf(decisions[i])))
            => /\ decisions[i].kind = "NoChange"
               /\ \A j \in DOMAIN calls :
                     calls[j].service # decisions[i].service)

\* A tick in which one service got NoChange while running pods were seen
\* (efficiency above the high threshold, rps not below the rps threshold).
C4_Witness ==
    \E i \in Decided :
        /\ decisions[i].kind = "NoChange"
        /\ RGt(SnapshotOf(decisions[i]).efficiency_rps_per_watt, cfg.high)
        /\ SnapshotOf(decisions[i]).replicas > cfg.min_replicas
        /\ calls = <<>>

\* C5: an input that satisfies the condition of rule 1 and the condition of
\* rule 2 gets ScaleUp (target current_replicas + 1), never ScaleDown.
C5_ScaleUpWins ==
    \A i \in Decided :
        LET d == decisions[i]
            m == SnapshotOf(d)
        IN  (UpCondition(m) /\ DownCondition(m)) =>
                d.kind = "ScaleUp" /\ d.target = m.replicas + 1

\* low > high, and an efficiency between them with both conditions true.
C5_Witness ==
    /\ RGt(cfg.low, cfg.high)
    /\ \E i \in Decided :
         /\ UpCondition(SnapshotOf(decisions[i]))
         /\ DownCondition(SnapshotOf(decisions[i]))
         /\ decisions[i].kind = "ScaleUp"
         /\ replicas[decisions[i].service]
              = SnapshotOf(decisions[i]).replicas + 1

\* C6 (as claimed): in every step the replica count of every service changes
\* by at most one, and every scale_deployment call has a target that differs
\* from the count the orchestrator holds by exactly one.
C6_StepOfOne ==
    [][/\ \A s \in ServiceIds :
            /\ replicas'[s] - replicas[s] <= 1
            /\ replicas[s] - replicas'[s] <= 1
       /\ Len(calls') > Len(calls) =>
            LET c == calls'[Len(calls')] IN
            \/ c.target = replicas[c.service] + 1
            \/ c.target = replicas[c.service] - 1]_vars

\* C7 (as claimed): replicas = max_replicas and efficiency < low_threshold
\* give NoChange under every threshold configuration.
C7_AtCeilingNoChange_AsClaimed ==
    \A i \in Decided :
        LET d == decisions[i]
            m == SnapshotOf(d)
        IN  (m.replicas = cfg.max_replicas
               /\ RLt(m.efficiency_rps_per_watt, cfg.low))
            => d.kind = "NoChange"

\* C7 (amended): replicas = max_replicas and efficiency < low_threshold never
\* give ScaleUp, and give NoChange for every rps whenever low_threshold <=
\* high_threshold.
C7_AtCeilingNoChange ==
    \A i \in Decided :
        LET d == decisions[i]
            m == SnapshotOf(d)
        IN  (m.replicas = cfg.max_replicas
               /\ RLt(m.efficiency_rps_per_watt, cfg.low))
            => /\ d.kind # "ScaleUp"
               /\ ~RGt(cfg.low, cfg.high) => d.kind = "NoChange"

\* The code's thresholds, a service at the ceiling with efficiency 0.10 and
\* rps below the rps threshold: NoChange and no call.
C7_Witness ==
    /\ cfg = CodeConfig
    /\ \E i \in Decided :
         /\ SnapshotOf(decisions[i]).replicas = MAX_REPLICAS
         /\ SnapshotOf(decisions[i]).efficiency_rps_per_watt = Rat(10, 100)
         /\ SnapshotOf(decisions[i]).rps = Rat(1, 1)
         /\ replicas[decisions[i].service] = MAX_REPLICAS
         /\ decisions[i].kind = "NoChange"
         /\ calls = <<>>

\* C8 (as claimed): replicas = min_replicas, efficiency > high_threshold and
\* rps < rps_down_threshold give NoChange under every threshold
\* configuration.
C8_AtFloorNoChange_AsClaimed ==
    \A i \in Decided :
        LET d == decisions[i]
            m == SnapshotOf(d)
        IN  (/\ m.replicas = cfg.min_replicas
             /\ RGt(m.efficiency_rps_per_watt, cfg.high)
             /\ RLt(m.rps, cfg.rps_down))
            => d.kind = "NoChange"

\* C8 (amended): replicas = min_replicas, efficiency > high_threshold and
\* rps < rps_down_threshold never give ScaleDown, and give NoChange whenever
\* low_threshold <= high_threshold.
C8_AtFloorNoChange ==
    \A i \in Decided :
        LET d == decisions[i]
            m == SnapshotOf(d)
        IN  (/\ m.replicas = cfg.min_replicas
             /\ RGt(m.efficiency_rps_per_watt, cfg.high)
             /\ RLt(m.rps, cfg.rps_down))
            => /\ d.kind # "ScaleDown"
               /\ ~RGt(cfg.low, cfg.high) => d.kind = "NoChange"

\* The code's thresholds, a service at the floor with efficiency 0.40 and
\* rps 1.0: NoChange and no call.
C8_Witness ==
    /\ cfg = CodeConfig
    /\ \E i \in Decided :
         /\ SnapshotOf(decisions[i]).replicas = MIN_REPLICAS
         /\ SnapshotOf(decisions[i]).efficiency_rps_per_watt = Rat(40, 100)
         /\ SnapshotOf(decisions[i]).rps = Rat(1, 1)
         /\ replicas[decisions[i].service] = MIN_REPLICAS
         /\ decisions[i].kind = "NoChange"
         /\ calls = <<>>

\* The efficiency of snapshot m is strictly between the two thresholds.
InBand(m) ==
    /\ RGt(m.efficiency_rps_per_watt, cfg.low)
    /\ RLt(m.efficiency_rps_per_watt, cfg.high)

\* C9: a service whose efficiency is strictly between low_threshold and
\* high_threshold gets NoChange for every rps and every replica count, and
\* the iteration that handles it leaves every replica count unchanged and
\* issues no call, tick after tick.
C9_InBandNoChange ==
    /\ [](\A i \in Decided :
            InBand(SnapshotOf(decisions[i])) =>
                decisions[i].kind = "NoChange")
    /\ [][(pc = "scale" /\ pos <= Len(Items) /\ InBand(metrics[Items[pos]]))
            => (replicas' = replicas /\ calls' = calls)]_vars

\* Efficiency 0.30 under the code's thresholds, with rps below the rps
\* threshold and a replica count strictly inside the bounds: NoChange.
C9_Witness ==
    /\ cfg = CodeConfig
    /\ \E i \in Decided :
         /\ SnapshotOf(decisions[i]).efficiency_rps_per_watt = Rat(30, 100)
         /\ SnapshotOf(decisions[i]).rps = Rat(1, 1)
         /\ SnapshotOf(decisions[i]).replicas = 3
         /\ replicas[decisions[i].service] = 3
         /\ decisions[i].kind = "NoChange"
         /\ calls = <<>>

\* The rule for the derived efficiency: rps / power_watts when
\* power_watts > 0, else 0.
EfficiencyRule(eff, rps, power) ==
    IF power[1] > 0
    THEN eff[1] * rps[2] * power[1] = rps[1] * power[2] * eff[2]
    ELSE eff[1] = 0

\* C10 (as claimed): in every snapshot that compute_metrics stores and in
\* every snapshot that get_service_metrics returns (read the way its caller
\* reads it, an absent field as 0), efficiency_rps_per_watt is
\* rps / power_watts when power_watts > 0 and 0 otherwise.
C10_EfficiencyDerived ==
    /\ \A s \in DOMAIN metrics :
         EfficiencyRule(metrics[s].efficiency_rps_per_watt,
                        metrics[s].rps, metrics[s].power_watts)
    /\ mon_pc \in {"return", "collected"} =>
         \A s \in DOMAIN mon_metrics :
            EfficiencyRule(Get(mon_metrics[s], "efficiency_rps_per_watt", Zero),
                           Get(mon_metrics[s], "rps", Zero),
                           Get(mon_metrics[s], "power_watts", Zero))
    /\ \A s \in DOMAIN rows :
         EfficiencyRule(rows[s].efficiency_rps_per_watt,
                        rows[s].rps, rows[s].power_watts)

\* The rule for the derived energy per request: power_watts / rps when
\* both are positive, else 0.
EprRule(rps, power) ==
    IF RIsPos(rps) /\ RIsPos(power) THEN RDiv(power, rps) ELSE Zero

\* C11 (as claimed): in every snapshot compute_metrics stores the field
\* epr_joules_per_request follows the rule, and get_epr_by_service reports
\* every service it has an energy sample and a request sample for, with the
\* epr the rule gives: 0 when the request rate is 0, never an omission.
C11_EprDerived ==
    /\ \A s \in DOMAIN metrics :
         metrics[s].epr_joules_per_request =
             EprRule(metrics[s].rps, metrics[s].power_watts)
    /\ mon_pc = "epr_done" =>
         \A i \in DOMAIN energy_data :
            LET service_name == ServiceName(energy_data[i].label) IN
            Matching(service_name) # {} =>
               /\ service_name \in DOMAIN epr_results
               /\ epr_results[service_name].epr_joules_per_request =
                      EprRule(epr_results[service_name].request_rate_rps,
                              epr_results[service_name].power_watts)

\* C12: wherever the code derives an epr from a positive power and a
\* positive request rate, epr * rps equals the power exactly.
C12_EprTimesRps ==
    /\ \A s \in DOMAIN metrics :
         (RIsPos(metrics[s].power_watts) /\ RIsPos(metrics[s].rps)) =>
            RMul(metrics[s].epr_joules_per_request, metrics[s].rps)
                = metrics[s].power_watts
    /\ \A s \in DOMAIN epr_results :
         (RIsPos(epr_results[s].power_watts)
            /\ RIsPos(epr_results[s].request_rate_rps)) =>
            RMul(epr_results[s].epr_joules_per_request,
                 epr_results[s].request_rate_rps)
                = epr_results[s].power_watts

\* One replica with a Running pod and no noise: rps 1.5, power 1.95 and
\* epr 1.3 joules per request.
C12_Witness ==
    \E s \in DOMAIN metrics :
       /\ metrics[s].rps = Rat(3, 2)
       /\ metrics[s].power_watts = Rat(195, 100)
       /\ metrics[s].epr_joules_per_request = Rat(13, 10)

\* C13 (as claimed): a snapshot with positive power and zero request rate
\* has epr 0 and efficiency 0, and when the service's replica count is below
\* max_replicas the iteration of autoscale that handles it, if its
\* scale_deployment call succeeds, leaves the orchestrator's count exactly
\* one higher than it was.
C13_ZeroRpsScalesUp ==
    /\ [](\A s \in DOMAIN metrics :
            (metrics[s].rps = Zero /\ RIsPos(metrics[s].power_watts)) =>
               /\ metrics[s].epr_joules_per_request = Zero
               /\ metrics[s].efficiency_rps_per_watt = Zero)
    /\ [][(/\ pc = "scale"
           /\ pos <= Len(Items)
           /\ metrics[Items[pos]].rps = Zero
           /\ RIsPos(metrics[Items[pos]].power_watts)
           /\ replicas[Items[pos]] < cfg.max_replicas
           /\ Len(calls') = Len(calls) + 1
           /\ calls'[Len(calls')].result = "ok")
            => replicas'[Items[pos]] = replicas[Items[pos]] + 1]_vars

\* The reads of this tick whose snapshot is held.
ReadsHeld == {i \in DOMAIN reads : reads[i].service \in DOMAIN metrics}

\* C14: a service whose get_current_replicas call failed gets the assumed
\* count 1 in the snapshot of that tick, and a service whose call succeeded
\* gets the count the orchestrator holds, whatever happened in earlier
\* ticks; the iteration of compute_metrics that reads the count always
\* moves on to the next service and never changes the orchestrator's count.
C14_FailedReadAssumesOne ==
    /\ [](\A i \in ReadsHeld :
            IF reads[i].result = None
            THEN metrics[reads[i].service].replicas = 1
            ELSE ~reads[i].raised =>
                    metrics[reads[i].service].replicas = reads[i].result)
    /\ [][(pc = "compute" /\ pos <= Len(SERVICES)) =>
            /\ pc' = "compute"
            /\ pos' = pos + 1
            /\ replicas' = replicas
            /\ Len(reads') = pos
            /\ reads'[pos].service = SERVICES[pos]
            /\ reads'[pos].result \in {None, replicas[SERVICES[pos]]}]_vars

\* The read of a service that holds 3 replicas failed: its snapshot carries
\* the assumed count 1 and compute_metrics has moved on to the next service.
C14_Witness ==
    /\ pc = "compute"
    /\ pos = 2
    /\ reads[1].result = None
    /\ ~reads[1].raised
    /\ replicas[SERVICES[1]] = 3
    /\ metrics[SERVICES[1]].replicas = 1

\* C15 (as claimed): in one tick no service gets more than one
\* scale_deployment call, and an iteration of autoscale whose call does not
\* succeed moves on to the next service.
C15_OneCallNoRetry ==
    /\ [](\A i, j \in DOMAIN calls :
            calls[i].service = calls[j].service => i = j)
    /\ [][(/\ pc = "scale"
           /\ Len(calls') = Len(calls) + 1
           /\ calls'[Len(calls')].result # "ok")
            => (pc' = "scale" /\ pos' = pos + 1)]_vars

\* C16 (as claimed): no failure while a service is handled ends the loop,
\* and a tick that has gone through its services has emitted exactly one
\* outcome line for each configured service, in order.
C16_FailuresNonFatal ==
    /\ pc # "crashed"
    /\ (pc = "scale" /\ pos > Len(Items)) =>
          /\ Len(log) = Len(SERVICES)
          /\ \A k \in DOMAIN log : log[k].service = SERVICES[k]

\* C17 (as claimed): the loop is Idle ("idle") or Evaluating ("compute",
\* "scale") and no reachable state is terminal: a step of the loop is
\* always possible.
C17_NoTerminalState ==
    /\ pc \in {"idle", "compute", "scale"}
    /\ ENABLED Next

\* C18 (as claimed): when the replica count of a service has been read,
\* every service before it in the configured order has already been through
\* its whole pipeline, its decision included.
C18_PipelinePerService ==
    \A i \in DOMAIN reads : \A j \in 1..(i - 1) :
       \E d \in DOMAIN decisions : decisions[d].service = reads[j].service

\* C18 (amended): a tick goes through the services in configured order
\* twice. compute_metrics first reads the count of every service, and no
\* decision is taken, call issued or outcome emitted meanwhile; autoscale
\* then handles one service at a time, and when it turns to a service the
\* decisions and outcome lines of all services before it are there.
C18_TwoPhasesInOrder ==
    /\ \A i \in DOMAIN reads : reads[i].service = SERVICES[i]
    /\ \A i \in DOMAIN decisions : decisions[i].service = SERVICES[i]
    /\ \A i \in DOMAIN log : log[i].service = SERVICES[i]
    /\ pc = "compute" =>
          /\ Len(reads) = pos - 1
          /\ decisions = <<>> /\ calls = <<>> /\ log = <<>>
    /\ pc = "scale" =>
          /\ Len(reads) = Len(SERVICES)
          /\ Len(decisions) = pos - 1
          /\ Len(log) = pos - 1

\* Both counts have been read, the first service has been scaled and its
\* outcome emitted, and autoscale turns to the second service.
C18_Witness ==
    /\ pc = "scale"
    /\ pos = 2
    /\ Len(reads) = Len(SERVICES)
    /\ Len(calls) = 1
    /\ calls[1].service = SERVICES[1]
    /\ Len(log) = 1

\* The decision the policy takes from the snapshot held for a service.
DecisionFor(service) ==
    ScalingPolicy(metrics[service].efficiency_rps_per_watt,
                  metrics[service].rps, metrics[service].replicas, cfg)

\* The scaling action the snapshot of a service calls for has been issued.
Applied(service) ==
    DecisionFor(service).kind # "NoChange" =>
       \E c \in DOMAIN calls :
          /\ calls[c].service = service
          /\ calls[c].target = DecisionFor(service).target

\* C19 (as claimed): whenever the loop is about to make an external call
\* for a service (in compute_metrics or in autoscale), where a stall would
\* block it, the scaling actions of all services before it have been issued.
C19_EarlierActionsApplied ==
    /\ (pc = "compute" /\ pos <= Len(SERVICES)) =>
          \A j \in 1..(pos - 1) : Applied(SERVICES[j])
    /\ (pc = "scale" /\ pos <= Len(Items)) =>
          \A j \in 1..(pos - 1) : Applied(Items[j])

\* C19 (amended): when autoscale is about to handle a service, the scaling
\* actions of all services before it have been issued; while
\* compute_metrics is still reading, no scaling action of the tick has been
\* issued at all.
C19_StallInAutoscale ==
    /\ (pc = "scale" /\ pos <= Len(Items)) =>
          \A j \in 1..(pos - 1) :
             /\ decisions[j].service = Items[j]
             /\ decisions[j].kind = DecisionFor(Items[j]).kind
             /\ Applied(Items[j])
    /\ pc = "compute" => calls = <<>>

\* autoscale is about to handle the second service after it scaled the
\* first one up, and the orchestrator holds the new count.
C19_Witness ==
    /\ pc = "scale"
    /\ pos = 2
    /\ pos <= Len(Items)
    /\ decisions[1].kind = "ScaleUp"
    /\ calls[1].result = "ok"
    /\ replicas[Items[1]] = decisions[1].target

\* Every snapshot taken of the first service has an efficiency below the
\* low threshold.
LowStays ==
    SERVICES[1] \in DOMAIN metrics =>
       RLt(metrics[SERVICES[1]].efficiency_rps_per_watt, cfg.low)

\* No scale_deployment call for the first service fails.
NoCallFails ==
    \A c \in DOMAIN calls :
       calls[c].service = SERVICES[1] => calls[c].result = "ok"

\* The try block of compute_metrics raises for no service.
NoRaise == \A i \in DOMAIN reads : ~reads[i].raised

\* C20 (as claimed, for the first service and rule 1): if its efficiency
\* stays below the low threshold, the loop keeps running, compute_metrics
\* raises nothing and its scale_deployment calls do not fail (a fortiori do
\* not fail forever), its replica count eventually reaches MAX_REPLICAS.
C20_RetryReachesMax ==
    ([]LowStays /\ []NoCallFails /\ []NoRaise /\ [](pc # "crashed"))
        => <>(replicas[SERVICES[1]] = MAX_REPLICAS)

\* C21: between ticks the program holds no snapshot; while compute_metrics
\* runs the dict holds exactly the services read so far in this tick; the
\* count in a snapshot is the one read in this tick (1 when the read failed
\* or the computation raised); and every decision is the one the policy
\* gives for the snapshot of this tick.
C21_NoStateAcrossTicks ==
    /\ pc = "idle" => DOMAIN metrics = {}
    /\ pc = "compute" => DOMAIN metrics = {SERVICES[k] : k \in 1..(pos - 1)}
    /\ \A i \in ReadsHeld :
          metrics[reads[i].service].replicas =
             IF reads[i].result = None \/ reads[i].raised
             THEN 1
             ELSE reads[i].result
    /\ pc \in {"scale", "crashed"} =>
          \A i \in DOMAIN decisions :
             /\ decisions[i].service \in DOMAIN metrics
             /\ decisions[i].kind = DecisionFor(decisions[i].service).kind
             /\ decisions[i].target = DecisionFor(decisions[i].service).target

\* A decision taken from the count 3 read in this tick, after which the
\* orchestrator holds 4: the next tick will have to read again.
C21_Witness ==
    /\ pc = "scale"
    /\ \E i \in DOMAIN decisions :
         /\ reads[i].result = 3
         /\ ~reads[i].raised
         /\ metrics[decisions[i].service].replicas = 3
         /\ decisions[i].kind = "ScaleUp"
         /\ replicas[decisions[i].service] = 4

\* C22: whatever another client wrote since the count was read, the call an
\* iteration of autoscale issues carries the count read earlier plus or
\* minus one, and when the call succeeds the orchestrator holds that target:
\* the other client's value is overwritten.
C22_LastWriteWins ==
    [][(pc = "scale" /\ pos <= Len(Items) /\ Len(calls') = Len(calls) + 1)
        => /\ calls'[Len(calls')].service = Items[pos]
           /\ calls'[Len(calls')].target \in
                 {metrics[Items[pos]].replicas + 1,
                  metrics[Items[pos]].replicas - 1}
           /\ calls'[Len(calls')].target = DecisionFor(Items[pos]).target
           /\ calls'[Len(calls')].result = "ok" =>
                 replicas'[Items[pos]] = calls'[Len(calls')].target]_vars

\* The count 2 was read, another client then set the deployment to 5, and
\* the ScaleUp derived from 2 has overwritten it with 3.
C22_Witness ==
    /\ Len(reads) = 1 /\ Len(others) = 1 /\ Len(calls) = 1
    /\ reads[1].result = 2
    /\ others[1] = [service |-> reads[1].service, value |-> 5]
    /\ calls[1] = [service |-> reads[1].service, target |-> 3, result |-> "ok"]
    /\ replicas[reads[1].service] = 3

\* What the specification requires of a configuration.
ValidConfig(c) ==
    /\ c.min_replicas <= c.max_replicas
    /\ c.low[1] >= 0 /\ c.high[1] >= 0 /\ c.rps_down[1] >= 0

\* C23 (as claimed): with an invalid configuration the loop never leaves
\* its start: no tick begins, no replica count is read and no
\* scale_deployment call is made.
C23_InvalidConfigNeverRuns ==
    ~ValidConfig(cfg) =>
       /\ pc = "idle"
       /\ reads = <<>>
       /\ calls = <<>>

\* The field of a snapshot that the samples of a block are stored in.
FieldOf(block) ==
    CASE block = "replicas" -> "replicas"
      [] block = "p95" -> "latency_p95_ms"
      [] block = "p99" -> "latency_p99_ms"
      [] block = "power" -> "power_watts"
      [] block = "rps" -> "rps"

\* The step consumes one sample of a query result, which names a service.
ConsumesServiceSample ==
    /\ mon_pc \in {"replicas", "p95", "p99", "power", "rps"}
    /\ mon_n' = mon_n + 1
    /\ sample'.label \in MonServices

\* C24 (as claimed): when a query of this call has failed, every sample of
\* another query that names a service is still stored in the snapshot of
\* that service.
C24_QueriesIndependent ==
    [][(ConsumesServiceSample /\ failed # {}) =>
          /\ sample'.label \in DOMAIN mon_metrics'
          /\ FieldOf(mon_pc) \in DOMAIN mon_metrics'[sample'.label]]_vars

\* C25 (as claimed): a service named by a sample of any query is in the map
\* from then on, and in every row of the collector a signal that is missing
\* from the snapshot is 0.
C25_AnySourceIncluded ==
    /\ [][ConsumesServiceSample => sample'.label \in DOMAIN mon_metrics']_vars
    /\ [](\A s \in DOMAIN rows :
            /\ "rps" \notin DOMAIN mon_metrics[s] => rows[s].rps = Zero
            /\ "power_watts" \notin DOMAIN mon_metrics[s] =>
                  rows[s].power_watts = Zero
            /\ "replicas" \notin DOMAIN mon_metrics[s] => rows[s].replicas = 0)

\* C26 (as claimed): a positive dynamic-mode power sample of a service that
\* is in the map adds its value to the service's power_watts.
C26_PowerSummed ==
    [][(/\ mon_pc = "power"
        /\ mon_n' = mon_n + 1
        /\ sample'.label \in DOMAIN mon_metrics
        /\ sample'.mode = "dynamic"
        /\ sample'.value > 0)
        => mon_metrics'[sample'.label]["power_watts"] =
              RAdd(Get(mon_metrics[sample'.label], "power_watts", Zero),
                   Rat(sample'.value, 1))]_vars

\* C27 (as claimed): a power sample whose mode is idle or whose value is
\* not positive leaves the power_watts of every service (0 when not set) as
\* it was.
C27_OnlyDynamicPositive ==
    [][(/\ mon_pc = "power"
        /\ mon_n' = mon_n + 1
        /\ (sample'.mode = "idle" \/ sample'.value <= 0))
        => \A s \in DOMAIN mon_metrics :
              Get(mon_metrics'[s], "power_watts", Zero) =
                 Get(mon_metrics[s], "power_watts", Zero)]_vars

\* The kind of decision the policy takes for the efficiency and rps of
\* snapshot m at replica count c.
KindAt(m, c) ==
    ScalingPolicy(m.efficiency_rps_per_watt, m.rps, c, cfg).kind

\* C28: under a configuration with low < high no snapshot satisfies the
\* conditions of both rules, and the efficiency and rps of a snapshot never
\* give ScaleUp at one replica count and ScaleDown at another: a service
\* scaled up in one tick is not scaled down in the next while its
\* efficiency and rps stay what they were (and the other way round).
C28_RulesExclusive ==
    RLt(cfg.low, cfg.high) =>
       \A i \in Decided :
          /\ ~(UpCondition(SnapshotOf(decisions[i]))
                /\ DownCondition(SnapshotOf(decisions[i])))
          /\ \A c1, c2 \in 0..MaxCur :
                ~(/\ KindAt(SnapshotOf(decisions[i]), c1) = "ScaleUp"
                  /\ KindAt(SnapshotOf(decisions[i]), c2) = "ScaleDown")

\* low 0.25 < high 0.35: efficiency 0.10 with an rps below the rps
\* threshold and 3 replicas is scaled up; only the efficiency keeps the
\* second rule from matching.
C28_Witness ==
    /\ cfg = CodeConfig
    /\ \E i \in Decided :
         /\ SnapshotOf(decisions[i]).efficiency_rps_per_watt = Rat(10, 100)
         /\ SnapshotOf(decisions[i]).rps = Rat(1, 1)
         /\ SnapshotOf(decisions[i]).replicas = 3
         /\ decisions[i].kind = "ScaleUp"
         /\ decisions[i].target = 4

\* The services whose read failed or whose computation raised in this tick.
Defaulted ==
    {reads[i].service : i \in {j \in DOMAIN reads :
                                  reads[j].result = None \/ reads[j].raised}}

\* C29: a service whose replica read failed or whose computation raised
\* has the count 1 in its snapshot; its decision in this tick is NoChange
\* or a ScaleUp to exactly 2, never a ScaleDown, and every call made for it
\* carries the target 2, whatever count the orchestrator holds.
C29_DefaultedNeverDown ==
    /\ \A s \in Defaulted \cap DOMAIN metrics : metrics[s].replicas = 1
    /\ \A i \in Decided :
          decisions[i].service \in Defaulted =>
             \/ decisions[i].kind = "NoChange"
             \/ decisions[i].kind = "ScaleUp" /\ decisions[i].target = 2
    /\ \A c \in DOMAIN calls :
          calls[c].service \in Defaulted => calls[c].target = 2

\* The read of a service that holds 4 replicas failed, and the service is
\* scaled "up" to 2.
C29_Witness ==
    \E i \in Decided :
       /\ decisions[i].service \in Defaulted
       /\ decisions[i].kind = "ScaleUp"
       /\ \E c \in DOMAIN calls :
             /\ calls[c] = [service |-> decisions[i].service, target |-> 2,
                            result |-> "failed"]
             /\ replicas[decisions[i].service] = 4

\* C30: every decision is the policy applied to the efficiency, rps and
\* replica count of the service's own snapshot; an iteration of
\* compute_metrics leaves the snapshots of the other services as they are;
\* and an iteration of autoscale issues calls for its own service only and
\* leaves the replica count of every other service unchanged.
C30_PerService ==
    /\ [](\A i \in Decided :
            /\ decisions[i].kind = DecisionFor(decisions[i].service).kind
            /\ decisions[i].target = DecisionFor(decisions[i].service).target)
    /\ [][(pc = "compute" /\ pos <= Len(SERVICES)) =>
            \A t \in DOMAIN metrics \ {SERVICES[pos]} :
               metrics'[t] = metrics[t]]_vars
    /\ [][(pc = "scale" /\ pos <= Len(Items)) =>
            /\ \A t \in ServiceIds \ {Items[pos]} : replicas'[t] = replicas[t]
            /\ Len(calls') > Len(calls) =>
                  calls'[Len(calls')].service = Items[pos]]_vars

\* The first service has been scaled from 1 to 2 while the second, whose
\* turn is next, still holds its 4 replicas.
C30_Witness ==
    /\ pc = "scale"
    /\ pos = 2
    /\ calls = <<[service |-> SERVICES[1], target |-> 2, result |-> "ok"]>>
    /\ reads[1].result = 1
    /\ replicas[SERVICES[1]] = 2
    /\ replicas[SERVICES[2]] = 4

====
